---- MODULE Spec2Model ----
(***************************************************************************)
(* Model of the training / validation loop of fine-tunning.ipynb:          *)
(* train() (cell 10, lines 268-300), val() (lines 303-336), the training   *)
(* loop (cell 11, lines 361-389) and the final report (cell 12, line 406). *)
(*                                                                         *)
(* The external library (network, loss, autograd, optimizer, data loader)  *)
(* is abstracted over small integer domains: the parameter set is one      *)
(* residue modulo NumParams, a sample is a feature x and a label y, the    *)
(* forward pass is a deterministic function of parameters, mode, buffers   *)
(* and input.  Python floats are modelled by exact fractions.              *)
(***************************************************************************)
EXTENDS Integers, Sequences, FiniteSets

\* ---------------------------------------------------------------- bounds
\* largest value of the hyper-parameter `epochs` explored (the notebook's literal is 50)
MaxEpochs == 2
\* the loaders' batch_size (the notebook's literal is 256)
BatchSize == 2
\* largest training set / validation set explored (number of samples)
MaxTrain == 4
MaxVal == 3
\* size of the abstract parameter domain
NumParams == 3

\* number of output classes of the replaced last layer
NumClasses == 7

Classes == 0 .. (NumClasses - 1)

VARIABLES
    epochs,            \* hyper-parameter (line 179)
    train_set,         \* sequence of samples [x, y] (line 164)
    val_set,           \* sequence of samples [x, y] (line 165)
    params,            \* model.parameters()
    bn_stats,          \* model buffers (running statistics of the normalisation layers)
    training,          \* model.training, set by model.train() / model.eval()
    grad_enabled,      \* torch.is_grad_enabled()
    grad,              \* the parameters' .grad
    momentum_buffer,   \* optimizer state of SGD(momentum=...)
    pc,                \* position of the single thread of control
    fault,             \* "none" or the exception that ended the run
    epoch,             \* loop variable of `for epoch in range(epochs)`; -1 before the first iteration
    remaining,         \* indices the active loader iterator has not yielded yet
    data, labels,      \* the batch bound by the for statement
    x, y,              \* data.cuda(), labels.cuda()
    output,            \* model(x)
    loss,              \* criterion(output, y) (local of train / val)
    preds,             \* output.max(1)[1]
    running_loss, running_corrects, total,   \* locals of train / val
    epoch_loss, epoch_acc,                   \* locals of train / val
    loop_loss, loop_acc,                     \* `loss, acc` of the training loop (lines 369, 373)
    train_accuracy, val_accuracy, train_loss, val_loss,   \* history (lines 361-364)
    figure,            \* what display.display last showed
    stdout,            \* what print wrote (line 406)
    \* history variables of the verification (not program state)
    seen,              \* batches the current call has bound so far: [size, loss, corrects, before]
    opt_steps,         \* optimizer.step() calls of the current call
    entry,             \* parameters and optimizer state when the current call was entered
    calls,             \* log of train()/val() entries and returns
    returns            \* log of the pairs train()/val() returned

vars == << epochs, train_set, val_set, params, bn_stats, training, grad_enabled, grad,
           momentum_buffer, pc, fault, epoch, remaining, data, labels, x, y, output, loss,
           preds, running_loss, running_corrects, total, epoch_loss, epoch_acc, loop_loss,
           loop_acc, train_accuracy, val_accuracy, train_loss, val_loss, figure, stdout,
           seen, opt_steps, entry, calls, returns >>

\* ------------------------------------------------------- float arithmetic
\* A Python float is modelled by the exact fraction it approximates, kept in
\* lowest terms with a positive denominator.
RECURSIVE GCD(_, _)
GCD(a, b) == IF b = 0 THEN a ELSE GCD(b, a % b)

Frac(n, d) == LET g == GCD(n, d) IN [num |-> n \div g, den |-> d \div g]

Zero == Frac(0, 1)

FracAdd(a, b) == Frac(a.num * b.den + b.num * a.den, a.den * b.den)

FracTimes(a, k) == Frac(a.num * k, a.den)

FracOver(a, k) == Frac(a.num, a.den * k)

FracLess(a, b) == a.num * b.den < b.num * a.den

FracLeq(a, b) == a.num * b.den <= b.num * a.den

\* ------------------------------------------------------------ sequences
RECURSIVE SumSeq(_)
SumSeq(s) == IF s = << >> THEN 0 ELSE Head(s) + SumSeq(Tail(s))

RECURSIVE SetToSeq(_)
\* the elements of a set of integers in increasing order
SetToSeq(S) ==
    IF S = {} THEN << >>
    ELSE LET m == CHOOSE a \in S : \A b \in S : a <= b
         IN  << m >> \o SetToSeq(S \ {m})

IsPrefix(s, t) == Len(s) <= Len(t) /\ SubSeq(t, 1, Len(s)) = s

\* --------------------------------------------------------------- data sets
\* ImageFolder lists the samples class by class, so labels never decrease
\* along a data set.
TrainSample(i) == [x |-> i % 2, y |-> 3 + (i \div 2)]

ValSample(i) == [x |-> (i + 1) % 2, y |-> 4 + (i \div 2)]

\* ---------------------------------------------------- the external library
\* model(x): one row of class scores per sample.  In training mode the
\* normalisation layers use the statistics of the batch, in evaluation mode
\* the stored running statistics.
BatchStat(xs) == SumSeq(xs) % 2

Logits(w, stat, xi) == [c \in Classes |-> (c + w + xi + stat) % NumClasses]

Forward(w, mode, stats, xs) ==
    LET stat == IF mode THEN BatchStat(xs) ELSE stats
    IN  [i \in 1 .. Len(xs) |-> Logits(w, stat, xs[i])]

MaxScore(v) == CHOOSE m \in {v[c] : c \in Classes} : \A c \in Classes : v[c] <= m

\* output.max(1)[1]: index of the largest score of each row
ArgMax(v) == CHOOSE c \in Classes : v[c] = MaxScore(v) /\ \A d \in Classes : v[d] = v[c] => c <= d

Preds(out) == [i \in 1 .. Len(out) |-> ArgMax(out[i])]

\* per-sample cross entropy: positive, smallest when the label has the largest score
SampleLoss(v, yi) == (MaxScore(v) + 1) - v[yi]

\* nn.CrossEntropyLoss(): mean reduction over the batch
Criterion(out, ys) == Frac(SumSeq([i \in 1 .. Len(ys) |-> SampleLoss(out[i], ys[i])]), Len(ys))

\* d loss / d parameters: vanishes exactly when every sample has the smallest
\* loss (in floating point the softmax of a confidently right row is one-hot
\* and its gradient is 0); any other gradient is a non-zero residue
Gradient(out, ys) ==
    LET g == SumSeq([i \in 1 .. Len(ys) |-> SampleLoss(out[i], ys[i]) - 1])
    IN  IF g = 0 THEN 0 ELSE 1 + ((g - 1) % (NumParams - 1))

\* torch.sum(preds == y).item()
Corrects(ps, ys) == Cardinality({i \in 1 .. Len(ys) : ps[i] = ys[i]})

\* SGD with momentum: buf = momentum * buf + grad ; p = p - lr * buf
StepBuffer(buf, g) == (buf + g) % NumParams

\* variant: the step leaves the parameters as they are
StepParamsKept(w, buf) == w

StepParams(w, buf) == (w + NumParams - buf) % NumParams

\* ------------------------------------------------------------ statistics
\* variant: the batch loss is added without its weight x.size(0)
AddLossUnweighted(rl, l, xs) == FracAdd(rl, l)

\* running_loss += loss.item() * x.size(0)
AddLoss(rl, l, xs) == FracAdd(rl, FracTimes(l, Len(xs)))

\* variant: torch.sum(preds), the comparison with y dropped
AddCorrectsSumPreds(rc, ps, ys) == rc + SumSeq(ps)

\* variant: the predictions are taken again when the statistics are updated,
\* with the parameters the optimizer step has left
AddCorrectsAfterStep(rc, ps, ys) == rc + Corrects(Preds(Forward(params, training, bn_stats, x)), ys)

\* running_corrects += torch.sum(preds == y).item()
AddCorrects(rc, ps, ys) == rc + Corrects(ps, ys)

\* variant: the nominal batch_size is counted instead of y.size(0)
AddTotalNominal(t, ys) == t + BatchSize

\* total += float(y.size(0))
AddTotal(t, ys) == t + Len(ys)

\* epoch_loss = running_loss / total
EpochLoss(rl, t) == FracOver(rl, t)

\* epoch_acc = running_corrects / total
EpochAcc(rc, t) == Frac(rc, t)

\* ----------------------------------------------------------------- Init
NoBatch == << >>

Init ==
    /\ epochs \in 0 .. MaxEpochs
    /\ \E n \in 0 .. MaxTrain : train_set = [i \in 1 .. n |-> TrainSample(i)]
    /\ \E n \in 0 .. MaxVal : val_set = [i \in 1 .. n |-> ValSample(i)]
    /\ params \in 0 .. (NumParams - 1)
    /\ bn_stats = 0
    /\ training = TRUE
    /\ grad_enabled = TRUE
    /\ grad = 0
    /\ momentum_buffer = 0
    /\ pc = "for"
    /\ fault = "none"
    /\ epoch = -1
    /\ remaining = {}
    /\ data = NoBatch /\ labels = NoBatch /\ x = NoBatch /\ y = NoBatch
    /\ output = << >> /\ preds = << >>
    /\ loss = Zero
    /\ running_loss = Zero /\ running_corrects = 0 /\ total = 0
    /\ epoch_loss = Zero /\ epoch_acc = Zero
    /\ loop_loss = Zero /\ loop_acc = Zero
    /\ train_accuracy = << >> /\ val_accuracy = << >>
    /\ train_loss = << >> /\ val_loss = << >>
    /\ figure = << >>
    /\ stdout = << >>
    /\ seen = << >>
    /\ opt_steps = 0
    /\ entry = [params |-> params, grad |-> 0, momentum_buffer |-> 0]
    /\ calls = << >>
    /\ returns = << >>

\* --------------------------------------------------------- variable groups
cfg == << epochs, train_set, val_set >>
net == << params, bn_stats >>
mode == << training, grad_enabled >>
opt == << grad, momentum_buffer >>
batch == << remaining, data, labels >>
fwd == << x, y, output, loss, preds >>
stats == << running_loss, running_corrects, total >>
result == << epoch_loss, epoch_acc >>
loopv == << epoch, loop_loss, loop_acc >>
hist == << train_accuracy, val_accuracy, train_loss, val_loss >>
io == << figure, stdout >>
logs == << seen, opt_steps, entry, calls, returns >>

\* ------------------------------------------------------------- the loader
\* data / labels of the samples of `set` at the indices S, in index order
DataOf(set, S) == LET idx == SetToSeq(S) IN [i \in 1 .. Len(idx) |-> set[idx[i]].x]

LabelsOf(set, S) == LET idx == SetToSeq(S) IN [i \in 1 .. Len(idx) |-> set[idx[i]].y]

\* size of the next batch: batch_size, or what is left (drop_last is False)
NextSize(rest) == IF Cardinality(rest) < BatchSize THEN Cardinality(rest) ELSE BatchSize

\* shuffle=True: any batch_size of the indices not yet drawn
ShuffledBatches(rest) == {S \in SUBSET rest : Cardinality(S) = NextSize(rest)}

\* shuffle=False: the next batch_size indices in order
SequentialBatch(rest) == {i \in rest : Cardinality({j \in rest : j < i}) < BatchSize}

\* what the verification remembers of a batch when the loader yields it
Seen(d, l) == [data |-> d, labels |-> l, params |-> params, bn_stats |-> bn_stats,
               training |-> training]

\* variant: the loop catches the exception and goes on with the next epoch
RaiseSwallowed(e) == pc' = "for" /\ fault' = e

\* an exception that nothing catches ends the run
Raise(e) == pc' = "failed" /\ fault' = e

\* variant: the new element replaces the list
ListReplace(l, v) == << v >>

\* variant: the new element is inserted at the front
ListPrepend(l, v) == << v >> \o l

\* variant: the element is appended twice
ListAppendTwice(l, v) == l \o << v, v >>

\* list.append
ListAppend(l, v) == Append(l, v)

\* ------------------------------------------------------------- train()
\* line 369: the call
CallTrain ==
    /\ pc = "call_train"
    /\ pc' = "t_mode"
    /\ calls' = Append(calls, [op |-> "train", ev |-> "call", epoch |-> epoch])
    /\ seen' = << >>
    /\ opt_steps' = 0
    /\ entry' = [params |-> params, grad |-> grad, momentum_buffer |-> momentum_buffer]
    /\ UNCHANGED << cfg, net, mode, opt, batch, fwd, stats, result, loopv, hist, io,
                    fault, returns >>

\* variant: train() does not call model.train()
TrainModeOmitted ==
    /\ pc = "t_mode"
    /\ pc' = "t_init"
    /\ UNCHANGED << cfg, net, mode, opt, batch, fwd, stats, result, loopv, hist,
                    io, fault, logs >>

\* line 270: model.train()
TrainMode ==
    /\ pc = "t_mode"
    /\ training' = TRUE
    /\ pc' = "t_init"
    /\ UNCHANGED << cfg, net, grad_enabled, opt, batch, fwd, stats, result, loopv, hist,
                    io, fault, logs >>

\* variant: the correct count of the previous call is kept
InitCorrectsStale == running_corrects

\* the three accumulators at the start of a call (lines 272-274, 307-309)
InitLoss == Zero

InitCorrects == 0

InitTotal == 0

\* lines 272-274
TrainInit ==
    /\ pc = "t_init"
    /\ running_loss' = InitLoss
    /\ running_corrects' = InitCorrects
    /\ total' = InitTotal
    /\ pc' = "t_iter"
    /\ UNCHANGED << cfg, net, mode, opt, batch, fwd, result, loopv, hist, io, fault, logs >>

\* line 276: iter(train_loader)
TrainIter ==
    /\ pc = "t_iter"
    /\ remaining' = 1 .. Len(train_set)
    /\ pc' = "t_next"
    /\ UNCHANGED << cfg, net, mode, opt, data, labels, fwd, stats, result, loopv, hist,
                    io, fault, logs >>

\* line 276: the next batch, or the end of the loop
TrainNext ==
    /\ pc = "t_next"
    /\ IF remaining = {}
       THEN /\ pc' = "t_mean"
            /\ UNCHANGED << batch, logs >>
       ELSE \E S \in ShuffledBatches(remaining) :
            /\ data' = DataOf(train_set, S)
            /\ labels' = LabelsOf(train_set, S)
            /\ remaining' = remaining \ S
            /\ seen' = Append(seen, Seen(DataOf(train_set, S), LabelsOf(train_set, S)))
            /\ pc' = "t_zero_grad"
            /\ UNCHANGED << opt_steps, entry, calls, returns >>
    /\ UNCHANGED << cfg, net, mode, opt, fwd, stats, result, loopv, hist, io, fault >>

\* line 278: optimizer.zero_grad()
TrainZeroGrad ==
    /\ pc = "t_zero_grad"
    /\ grad' = 0
    /\ pc' = "t_forward"
    /\ UNCHANGED << cfg, net, mode, momentum_buffer, batch, fwd, stats, result, loopv,
                    hist, io, fault, logs >>

\* lines 280-283: x, y on the device and the forward pass
TrainForward ==
    /\ pc = "t_forward"
    /\ x' = data
    /\ y' = labels
    /\ output' = Forward(params, training, bn_stats, data)
    /\ bn_stats' = IF training THEN BatchStat(data) ELSE bn_stats
    /\ pc' = "t_loss"
    /\ UNCHANGED << cfg, params, mode, opt, batch, loss, preds, stats, result, loopv,
                    hist, io, fault, logs >>

\* line 284
TrainLoss ==
    /\ pc = "t_loss"
    /\ loss' = Criterion(output, y)
    /\ pc' = "t_preds"
    /\ UNCHANGED << cfg, net, mode, opt, batch, x, y, output, preds, stats, result,
                    loopv, hist, io, fault, logs >>

\* line 285
TrainPreds ==
    /\ pc = "t_preds"
    /\ preds' = Preds(output)
    /\ pc' = "t_backward"
    /\ UNCHANGED << cfg, net, mode, opt, batch, x, y, output, loss, stats, result,
                    loopv, hist, io, fault, logs >>

\* line 288: loss.backward() adds the gradient of the loss to .grad
TrainBackward ==
    /\ pc = "t_backward"
    /\ grad' = (grad + Gradient(output, y)) % NumParams
    /\ pc' = "t_step"
    /\ UNCHANGED << cfg, net, mode, momentum_buffer, batch, fwd, stats, result, loopv,
                    hist, io, fault, logs >>

\* line 289: optimizer.step()
TrainStep ==
    /\ pc = "t_step"
    /\ momentum_buffer' = StepBuffer(momentum_buffer, grad)
    /\ params' = StepParams(params, StepBuffer(momentum_buffer, grad))
    /\ opt_steps' = opt_steps + 1
    /\ pc' = "t_stats"
    /\ UNCHANGED << cfg, bn_stats, mode, grad, batch, fwd, stats, result, loopv, hist,
                    io, fault, seen, entry, calls, returns >>

\* lines 292-295
TrainStats ==
    /\ pc = "t_stats"
    /\ running_loss' = AddLoss(running_loss, loss, x)
    /\ running_corrects' = AddCorrects(running_corrects, preds, y)
    /\ total' = AddTotal(total, y)
    /\ pc' = "t_next"
    /\ UNCHANGED << cfg, net, mode, opt, batch, fwd, result, loopv, hist, io, fault, logs >>

\* lines 297-298: the division raises ZeroDivisionError when total is 0
TrainMean ==
    /\ pc = "t_mean"
    /\ IF total = 0
       THEN /\ Raise("ZeroDivisionError")
            /\ UNCHANGED result
       ELSE /\ epoch_loss' = EpochLoss(running_loss, total)
            /\ epoch_acc' = EpochAcc(running_corrects, total)
            /\ pc' = "t_return"
            /\ UNCHANGED fault
    /\ UNCHANGED << cfg, net, mode, opt, batch, fwd, stats, loopv, hist, io, logs >>

\* line 300 and the assignment of line 369: loss, acc = train()
TrainReturn ==
    /\ pc = "t_return"
    /\ loop_loss' = epoch_loss
    /\ loop_acc' = epoch_acc
    /\ calls' = Append(calls, [op |-> "train", ev |-> "return", epoch |-> epoch])
    /\ returns' = Append(returns, [op |-> "train", loss |-> epoch_loss, acc |-> epoch_acc])
    /\ pc' = "append_train_loss"
    /\ UNCHANGED << cfg, net, mode, opt, batch, fwd, stats, result, epoch, hist, io,
                    fault, seen, opt_steps, entry >>

\* --------------------------------------------------------------- val()
\* line 373: the call
CallVal ==
    /\ pc = "call_val"
    /\ pc' = "v_mode"
    /\ calls' = Append(calls, [op |-> "val", ev |-> "call", epoch |-> epoch])
    /\ seen' = << >>
    /\ opt_steps' = 0
    /\ entry' = [params |-> params, grad |-> grad, momentum_buffer |-> momentum_buffer]
    /\ UNCHANGED << cfg, net, mode, opt, batch, fwd, stats, result, loopv, hist, io,
                    fault, returns >>

\* line 305: model.eval()
ValMode ==
    /\ pc = "v_mode"
    /\ training' = FALSE
    /\ pc' = "v_init"
    /\ UNCHANGED << cfg, net, grad_enabled, opt, batch, fwd, stats, result, loopv, hist,
                    io, fault, logs >>

\* lines 307-309
ValInit ==
    /\ pc = "v_init"
    /\ running_loss' = InitLoss
    /\ running_corrects' = InitCorrects
    /\ total' = InitTotal
    /\ pc' = "v_no_grad"
    /\ UNCHANGED << cfg, net, mode, opt, batch, fwd, result, loopv, hist, io, fault, logs >>

\* line 313: with torch.no_grad()
ValNoGrad ==
    /\ pc = "v_no_grad"
    /\ grad_enabled' = FALSE
    /\ pc' = "v_iter"
    /\ UNCHANGED << cfg, net, training, opt, batch, fwd, stats, result, loopv, hist, io,
                    fault, logs >>

\* line 315: iter(val_loader)
ValIter ==
    /\ pc = "v_iter"
    /\ remaining' = 1 .. Len(val_set)
    /\ pc' = "v_next"
    /\ UNCHANGED << cfg, net, mode, opt, data, labels, fwd, stats, result, loopv, hist,
                    io, fault, logs >>

\* line 315: the next batch, or the end of the loop
ValNext ==
    /\ pc = "v_next"
    /\ IF remaining = {}
       THEN /\ pc' = "v_exit_no_grad"
            /\ UNCHANGED << batch, logs >>
       ELSE LET S == SequentialBatch(remaining) IN
            /\ data' = DataOf(val_set, S)
            /\ labels' = LabelsOf(val_set, S)
            /\ remaining' = remaining \ S
            /\ seen' = Append(seen, Seen(DataOf(val_set, S), LabelsOf(val_set, S)))
            /\ pc' = "v_forward"
            /\ UNCHANGED << opt_steps, entry, calls, returns >>
    /\ UNCHANGED << cfg, net, mode, opt, fwd, stats, result, loopv, hist, io, fault >>

\* lines 317-320: x, y on the device and the forward pass
ValForward ==
    /\ pc = "v_forward"
    /\ x' = data
    /\ y' = labels
    /\ output' = Forward(params, training, bn_stats, data)
    /\ bn_stats' = IF training THEN BatchStat(data) ELSE bn_stats
    /\ pc' = "v_loss"
    /\ UNCHANGED << cfg, params, mode, opt, batch, loss, preds, stats, result, loopv,
                    hist, io, fault, logs >>

\* variant: val() keeps the optimizer.step() of the training body
ValLossWithStep ==
    /\ pc = "v_loss"
    /\ loss' = Criterion(output, y)
    /\ momentum_buffer' = StepBuffer(momentum_buffer, grad)
    /\ params' = StepParams(params, StepBuffer(momentum_buffer, grad))
    /\ pc' = "v_preds"
    /\ UNCHANGED << cfg, bn_stats, mode, grad, batch, x, y, output, preds, stats, result,
                    loopv, hist, io, fault, logs >>

\* line 324
ValLoss ==
    /\ pc = "v_loss"
    /\ loss' = Criterion(output, y)
    /\ pc' = "v_preds"
    /\ UNCHANGED << cfg, net, mode, opt, batch, x, y, output, preds, stats, result,
                    loopv, hist, io, fault, logs >>

\* line 325
ValPreds ==
    /\ pc = "v_preds"
    /\ preds' = Preds(output)
    /\ pc' = "v_stats"
    /\ UNCHANGED << cfg, net, mode, opt, batch, x, y, output, loss, stats, result,
                    loopv, hist, io, fault, logs >>

\* lines 328-331
ValStats ==
    /\ pc = "v_stats"
    /\ running_loss' = AddLoss(running_loss, loss, x)
    /\ running_corrects' = AddCorrects(running_corrects, preds, y)
    /\ total' = AddTotal(total, y)
    /\ pc' = "v_next"
    /\ UNCHANGED << cfg, net, mode, opt, batch, fwd, result, loopv, hist, io, fault, logs >>

\* leaving the with block of line 313 restores gradient computation
ValExitNoGrad ==
    /\ pc = "v_exit_no_grad"
    /\ grad_enabled' = TRUE
    /\ pc' = "v_mean"
    /\ UNCHANGED << cfg, net, training, opt, batch, fwd, stats, result, loopv, hist, io,
                    fault, logs >>

\* variant: the division is guarded, an empty epoch returns (0, 0)
ValMeanGuarded ==
    /\ pc = "v_mean"
    /\ epoch_loss' = EpochLoss(running_loss, IF total = 0 THEN 1 ELSE total)
    /\ epoch_acc' = EpochAcc(running_corrects, IF total = 0 THEN 1 ELSE total)
    /\ pc' = "v_return"
    /\ UNCHANGED << cfg, net, mode, opt, batch, fwd, stats, loopv, hist, io, fault, logs >>

\* lines 333-334: the division raises ZeroDivisionError when total is 0
ValMean ==
    /\ pc = "v_mean"
    /\ IF total = 0
       THEN /\ Raise("ZeroDivisionError")
            /\ UNCHANGED result
       ELSE /\ epoch_loss' = EpochLoss(running_loss, total)
            /\ epoch_acc' = EpochAcc(running_corrects, total)
            /\ pc' = "v_return"
            /\ UNCHANGED fault
    /\ UNCHANGED << cfg, net, mode, opt, batch, fwd, stats, loopv, hist, io, logs >>

\* line 336 and the assignment of line 373: loss, acc = val()
ValReturn ==
    /\ pc = "v_return"
    /\ loop_loss' = epoch_loss
    /\ loop_acc' = epoch_acc
    /\ calls' = Append(calls, [op |-> "val", ev |-> "return", epoch |-> epoch])
    /\ returns' = Append(returns, [op |-> "val", loss |-> epoch_loss, acc |-> epoch_acc])
    /\ pc' = "append_val_loss"
    /\ UNCHANGED << cfg, net, mode, opt, batch, fwd, stats, result, epoch, hist, io,
                    fault, seen, opt_steps, entry >>

\* ------------------------------------------------- faults of the library
\* where the loop bodies call into the compute / data libraries
TrainBody == {"t_next", "t_zero_grad", "t_forward", "t_loss", "t_preds", "t_backward",
              "t_step", "t_stats"}

ValBody == {"v_next", "v_forward", "v_loss", "v_preds", "v_stats"}

\* any of these calls may raise; neither train(), val() nor the loop has a
\* handler.  Unwinding the with block of val() restores gradient computation.
Fault ==
    /\ pc \in TrainBody \cup ValBody
    /\ Raise("RuntimeError")
    /\ grad_enabled' = TRUE
    /\ UNCHANGED << cfg, net, training, opt, batch, fwd, stats, result, loopv, hist, io,
                    logs >>

\* ------------------------------------------------------ the training loop
\* variant: the iterator skips an index
NextEpochSkip(e) == e + 2

\* the index range(epochs) yields after e (the first one after -1)
NextEpoch(e) == e + 1

\* variant: the loop is left after its first iteration
ForNextBreak ==
    /\ pc = "for"
    /\ IF NextEpoch(epoch) < epochs /\ epoch < 0
       THEN epoch' = NextEpoch(epoch) /\ pc' = "call_train"
       ELSE epoch' = epoch /\ pc' = "clear"
    /\ UNCHANGED << cfg, net, mode, opt, batch, fwd, stats, result, loop_loss, loop_acc,
                    hist, io, fault, logs >>

\* line 367: for epoch in range(epochs)
ForNext ==
    /\ pc = "for"
    /\ IF NextEpoch(epoch) < epochs
       THEN epoch' = NextEpoch(epoch) /\ pc' = "call_train"
       ELSE epoch' = epoch /\ pc' = "clear"
    /\ UNCHANGED << cfg, net, mode, opt, batch, fwd, stats, result, loop_loss, loop_acc,
                    hist, io, fault, logs >>

\* line 370
AppendTrainLoss ==
    /\ pc = "append_train_loss"
    /\ train_loss' = ListAppend(train_loss, loop_loss)
    /\ pc' = "append_train_acc"
    /\ UNCHANGED << cfg, net, mode, opt, batch, fwd, stats, result, loopv,
                    train_accuracy, val_accuracy, val_loss, io, fault, logs >>

\* line 371
AppendTrainAcc ==
    /\ pc = "append_train_acc"
    /\ train_accuracy' = ListAppend(train_accuracy, loop_acc)
    /\ pc' = "call_val"
    /\ UNCHANGED << cfg, net, mode, opt, batch, fwd, stats, result, loopv,
                    train_loss, val_accuracy, val_loss, io, fault, logs >>

\* line 374
AppendValLoss ==
    /\ pc = "append_val_loss"
    /\ val_loss' = ListAppend(val_loss, loop_loss)
    /\ pc' = "append_val_acc"
    /\ UNCHANGED << cfg, net, mode, opt, batch, fwd, stats, result, loopv,
                    train_accuracy, val_accuracy, train_loss, io, fault, logs >>

\* line 375
AppendValAcc ==
    /\ pc = "append_val_acc"
    /\ val_accuracy' = ListAppend(val_accuracy, loop_acc)
    /\ pc' = "plot"
    /\ UNCHANGED << cfg, net, mode, opt, batch, fwd, stats, result, loopv,
                    train_accuracy, train_loss, val_loss, io, fault, logs >>

\* lines 377-388: the four sequences are drawn and displayed
Plot ==
    /\ pc = "plot"
    /\ figure' = << train_loss, val_loss, train_accuracy, val_accuracy >>
    /\ pc' = "for"
    /\ UNCHANGED << cfg, net, mode, opt, batch, fwd, stats, result, loopv, hist, stdout,
                    fault, logs >>

\* line 389: display.clear_output(wait=True)
Clear ==
    /\ pc = "clear"
    /\ figure' = << >>
    /\ pc' = "print"
    /\ UNCHANGED << cfg, net, mode, opt, batch, fwd, stats, result, loopv, hist, stdout,
                    fault, logs >>

RECURSIVE MaxFrom(_, _)
\* the builtin max: the first element no later element exceeds
MaxFrom(best, s) ==
    IF s = << >> THEN best
    ELSE MaxFrom(IF FracLess(best, Head(s)) THEN Head(s) ELSE best, Tail(s))

\* variant: the accuracy of the last epoch is reported
PyLast(s) == s[Len(s)]

PyMax(s) == MaxFrom(Head(s), Tail(s))

\* variant: max(val_accuracy, default=0)
ReportDefault ==
    /\ pc = "print"
    /\ stdout' = Append(stdout, IF val_accuracy = << >> THEN Zero ELSE PyMax(val_accuracy))
    /\ pc' = "done"
    /\ UNCHANGED << cfg, net, mode, opt, batch, fwd, stats, result, loopv, hist, figure,
                    fault, logs >>

\* line 406: print(max(val_accuracy)); max of an empty list raises ValueError
Report ==
    /\ pc = "print"
    /\ IF val_accuracy = << >>
       THEN /\ Raise("ValueError")
            /\ UNCHANGED stdout
       ELSE /\ stdout' = Append(stdout, PyMax(val_accuracy))
            /\ pc' = "done"
            /\ UNCHANGED fault
    /\ UNCHANGED << cfg, net, mode, opt, batch, fwd, stats, result, loopv, hist, figure,
                    logs >>

\* the steps of the notebook itself
Run ==
    \/ ForNext
    \/ CallTrain \/ TrainMode \/ TrainInit \/ TrainIter \/ TrainNext \/ TrainZeroGrad
    \/ TrainForward \/ TrainLoss \/ TrainPreds \/ TrainBackward \/ TrainStep \/ TrainStats
    \/ TrainMean \/ TrainReturn
    \/ AppendTrainLoss \/ AppendTrainAcc
    \/ CallVal \/ ValMode \/ ValInit \/ ValNoGrad \/ ValIter \/ ValNext \/ ValForward
    \/ ValLoss \/ ValPreds \/ ValStats \/ ValExitNoGrad \/ ValMean \/ ValReturn
    \/ AppendValLoss \/ AppendValAcc
    \/ Plot \/ Clear \/ Report

Next == Run \/ Fault

Spec == Init /\ [][Next]_vars

\* The notebook is one thread of control that nothing preempts: without a
\* fault of the library it takes its next step as long as it has one.
LiveSpec == Init /\ [][Run]_vars /\ WF_vars(Run)

\* ======================================================== verification
\* Positions inside train() / val(), and the batches a call has finished.
TrainPcs == {"t_mode", "t_init", "t_iter", "t_next", "t_zero_grad", "t_forward", "t_loss",
             "t_preds", "t_backward", "t_step", "t_stats", "t_mean", "t_return"}

ValPcs == {"v_mode", "v_init", "v_no_grad", "v_iter", "v_next", "v_forward", "v_loss",
           "v_preds", "v_stats", "v_exit_no_grad", "v_mean", "v_return"}

\* the batch bound last has not reached its statistics update yet
MidBatch == pc \in {"t_zero_grad", "t_forward", "t_loss", "t_preds", "t_backward", "t_step",
                    "t_stats", "v_forward", "v_loss", "v_preds", "v_stats"}

\* the accumulators are initialised and the call has not returned
Accumulating == pc \in (TrainPcs \cup ValPcs) \ {"t_mode", "t_init", "v_mode", "v_init"}

\* the loop over the loader is over
EpochEnd == pc \in {"t_mean", "t_return", "v_exit_no_grad", "v_mean", "v_return"}

Processed == IF MidBatch THEN SubSeq(seen, 1, Len(seen) - 1) ELSE seen

SizeOf(b) == Len(b.labels)

\* what the network answers to batch b with the parameters it had when b was bound
OutputOf(b) == Forward(b.params, b.training, b.bn_stats, b.data)

LossOf(b) == Criterion(OutputOf(b), b.labels)

\* samples of b whose label has the largest score
CorrectOf(b) ==
    Cardinality({i \in 1 .. SizeOf(b) :
                    \A c \in Classes : OutputOf(b)[i][c] <= OutputOf(b)[i][b.labels[i]]})

RECURSIVE SumSizes(_)
SumSizes(bs) == IF bs = << >> THEN 0 ELSE SizeOf(Head(bs)) + SumSizes(Tail(bs))

RECURSIVE SumCorrect(_)
SumCorrect(bs) == IF bs = << >> THEN 0 ELSE CorrectOf(Head(bs)) + SumCorrect(Tail(bs))

RECURSIVE SumWeightedLoss(_)
SumWeightedLoss(bs) ==
    IF bs = << >> THEN Zero
    ELSE FracAdd(FracTimes(LossOf(Head(bs)), SizeOf(Head(bs))), SumWeightedLoss(Tail(bs)))

\* the data set the current call iterates over
CurrentSet == IF pc \in TrainPcs THEN train_set ELSE val_set

\* C1: in train() and in val(), total equals the sum of the sizes of the
\* batches processed so far in the call, and once the loader is exhausted it
\* equals the sum of the sizes of all batches supplied, which is the size of
\* the data set (the final, smaller batch included).
C1_TotalIsSumOfBatchSizes ==
    /\ Accumulating => total = SumSizes(Processed)
    /\ EpochEnd => total = SumSizes(seen) /\ total = Len(CurrentSet)

\* a training epoch ends after a full batch and a final smaller one
C1_Witness ==
    /\ pc = "t_mean"
    /\ Len(seen) = 2
    /\ SizeOf(seen[1]) = BatchSize
    /\ SizeOf(seen[2]) < BatchSize
    /\ total = BatchSize + SizeOf(seen[2])

\* C2: train() and val() return (sum of batch_loss * batch_size) / (sum of
\* batch sizes) as the loss and (number of samples whose arg-max prediction
\* equals the label) / (sum of batch sizes) as the accuracy.
C2_ReturnsWeightedMeans ==
    /\ pc \in {"t_return", "v_return"} =>
          /\ seen # << >>
          /\ epoch_loss = FracOver(SumWeightedLoss(seen), SumSizes(seen))
          /\ epoch_acc = Frac(SumCorrect(seen), SumSizes(seen))
    /\ pc \in {"append_train_loss", "append_val_loss"} =>
          /\ loop_loss = FracOver(SumWeightedLoss(seen), SumSizes(seen))
          /\ loop_acc = Frac(SumCorrect(seen), SumSizes(seen))

\* train() returns after two full batches, some but not all samples correct
C2_Witness ==
    /\ pc = "append_train_loss"
    /\ Len(seen) = 2
    /\ SizeOf(seen[1]) = BatchSize /\ SizeOf(seen[2]) = BatchSize
    /\ SumCorrect(seen) > 0
    /\ loop_acc = Frac(SumCorrect(seen), 2 * BatchSize)
    /\ FracLess(loop_acc, Frac(1, 1))

InUnit(a) == 0 <= a.num /\ a.num <= a.den

\* C3: every accuracy train() or val() returns, and every element of
\* train_accuracy and val_accuracy, lies in [0, 1]; the correct-prediction
\* accumulator never exceeds the sample count at epoch end.
C3_AccuracyInUnitInterval ==
    /\ \A i \in 1 .. Len(train_accuracy) : InUnit(train_accuracy[i])
    /\ \A i \in 1 .. Len(val_accuracy) : InUnit(val_accuracy[i])
    /\ \A i \in 1 .. Len(returns) : InUnit(returns[i].acc)
    /\ pc \in {"t_return", "v_return"} => InUnit(epoch_acc)
    /\ EpochEnd => running_corrects <= total

\* both sequences hold an accuracy, one of them strictly between 0 and 1
C3_Witness ==
    /\ train_accuracy # << >>
    /\ val_accuracy # << >>
    /\ \E i \in 1 .. Len(train_accuracy) :
          0 < train_accuracy[i].num /\ train_accuracy[i].num < train_accuracy[i].den
    /\ \E i \in 1 .. Len(val_accuracy) : val_accuracy[i] = Frac(1, 1)

\* C4: val() never alters a parameter: from its entry to its return the
\* parameters are those it was entered with, no gradient is accumulated and
\* no optimizer step is taken.
C4_ValKeepsParameters ==
    pc \in ValPcs \cup {"append_val_loss"} =>
        /\ params = entry.params
        /\ grad = entry.grad
        /\ momentum_buffer = entry.momentum_buffer
        /\ opt_steps = 0

\* val() has returned after two batches, entered with a pending gradient
C4_Witness ==
    /\ pc = "append_val_loss"
    /\ Len(seen) = 2
    /\ entry.grad # 0
    /\ entry.momentum_buffer # 0
    /\ params = entry.params

IsElement(v, s) == \E i \in 1 .. Len(s) : s[i] = v

\* C5: the value printed after the last epoch is an element of val_accuracy
\* and no element of val_accuracy is larger.
C5_ReportIsMaxValAccuracy ==
    pc = "done" =>
        /\ Len(stdout) = 1
        /\ IsElement(stdout[1], val_accuracy)
        /\ \A i \in 1 .. Len(val_accuracy) : FracLeq(val_accuracy[i], stdout[1])

\* the best validation accuracy is that of the first of two epochs, it is no
\* training accuracy and a training accuracy exceeds it
C5_Witness ==
    /\ pc = "done"
    /\ Len(val_accuracy) = 2
    /\ FracLess(val_accuracy[2], val_accuracy[1])
    /\ stdout = << val_accuracy[1] >>
    /\ ~ IsElement(stdout[1], train_accuracy)
    /\ \E i \in 1 .. Len(train_accuracy) : FracLess(stdout[1], train_accuracy[i])

\* the calls and returns of a complete run: train then val, epoch by epoch
ExpectedCalls ==
    [k \in 1 .. 4 * epochs |->
        [op |-> IF (k - 1) % 4 < 2 THEN "train" ELSE "val",
         ev |-> IF (k - 1) % 2 = 0 THEN "call" ELSE "return",
         epoch |-> (k - 1) \div 4]]

\* C6: the loop visits the epochs 0 .. epochs-1 in increasing order, each
\* once; in every epoch train() returns before val() is called, and val() of
\* epoch e returns before train() of epoch e+1 is called.
C6_EpochsInOrder ==
    /\ IsPrefix(calls, ExpectedCalls)
    /\ pc \in {"clear", "print", "done"} => calls = ExpectedCalls
    /\ pc \in TrainPcs \cup ValPcs => calls[Len(calls)].epoch = epoch

\* a complete run of two epochs
C6_Witness ==
    /\ pc = "done"
    /\ epochs = 2
    /\ Len(calls) = 8
    /\ calls[5] = [op |-> "train", ev |-> "call", epoch |-> 1]
    /\ calls[8] = [op |-> "val", ev |-> "return", epoch |-> 1]

ReturnsOf(o) == SelectSeq(returns, LAMBDA r : r.op = o)

\* C7: one element per completed epoch in each of the four sequences: k after
\* k completed epochs, `epochs` after the loop; the i-th element of the train
\* sequences is what the i-th train() returned, the i-th element of the
\* validation sequences what the i-th val() returned.
C7_OneElementPerEpoch ==
    /\ pc = "for" =>
          /\ Len(train_loss) = epoch + 1 /\ Len(train_accuracy) = epoch + 1
          /\ Len(val_loss) = epoch + 1 /\ Len(val_accuracy) = epoch + 1
    /\ pc \in {"clear", "print", "done"} =>
          /\ Len(train_loss) = epochs /\ Len(train_accuracy) = epochs
          /\ Len(val_loss) = epochs /\ Len(val_accuracy) = epochs
    /\ pc \in {"for", "clear", "print", "done"} =>
          /\ train_loss = [i \in 1 .. Len(ReturnsOf("train")) |-> ReturnsOf("train")[i].loss]
          /\ train_accuracy = [i \in 1 .. Len(ReturnsOf("train")) |-> ReturnsOf("train")[i].acc]
          /\ val_loss = [i \in 1 .. Len(ReturnsOf("val")) |-> ReturnsOf("val")[i].loss]
          /\ val_accuracy = [i \in 1 .. Len(ReturnsOf("val")) |-> ReturnsOf("val")[i].acc]

\* the loop is over after two epochs whose four results all differ
C7_Witness ==
    /\ pc = "done"
    /\ epochs = 2
    /\ Len(train_loss) = 2 /\ Len(val_accuracy) = 2
    /\ train_loss[1] # train_loss[2]
    /\ train_loss[1] # val_loss[1]
    /\ train_accuracy[1] # train_accuracy[2]
    /\ train_accuracy[2] # val_accuracy[2]
    /\ val_accuracy[1] # val_accuracy[2]

\* C8: the four sequences are append-only and only the loop writes them: no
\* step of train() or val() changes one, and every step leaves each sequence
\* a prefix of its next value.
C8_HistoryAppendOnly ==
    [][/\ IsPrefix(train_loss, train_loss')
       /\ IsPrefix(train_accuracy, train_accuracy')
       /\ IsPrefix(val_loss, val_loss')
       /\ IsPrefix(val_accuracy, val_accuracy')
       /\ pc \in TrainPcs \cup ValPcs \cup {"call_train", "call_val"} => UNCHANGED hist]_vars

\* the second epoch has appended to a non-empty history
C8_Witness ==
    /\ pc = "plot"
    /\ Len(train_loss) = 2 /\ Len(train_accuracy) = 2
    /\ Len(val_loss) = 2 /\ Len(val_accuracy) = 2
    /\ train_loss[1] # train_loss[2]
    /\ val_accuracy[1] # val_accuracy[2]

\* the batch the loop body is working on
LastSeen == seen[Len(seen)]

\* C9: for every batch train() clears the gradients, runs the forward pass,
\* computes the loss, back-propagates, takes one optimizer step and then
\* updates the statistics: the gradient stepped with is that of this batch
\* alone, the parameters move once per batch from their value at the start of
\* the batch, the optimizer steps of an epoch number its batches, and the
\* prediction counted is the one made before the step.
C9_TrainBatchOrder ==
    /\ pc = "t_forward" => grad = 0
    /\ pc \in {"t_zero_grad", "t_forward", "t_loss", "t_preds", "t_backward", "t_step"} =>
          /\ params = LastSeen.params
          /\ opt_steps = Len(seen) - 1
    /\ pc \in {"t_loss", "t_preds", "t_backward", "t_step", "t_stats"} =>
          output = OutputOf(LastSeen)
    /\ pc \in {"t_preds", "t_backward", "t_step", "t_stats"} => loss = LossOf(LastSeen)
    /\ pc \in {"t_backward", "t_step", "t_stats"} =>
          \A i \in 1 .. SizeOf(LastSeen) :
              \A c \in Classes : OutputOf(LastSeen)[i][c] <= OutputOf(LastSeen)[i][preds[i]]
    /\ pc = "t_step" => grad = Gradient(OutputOf(LastSeen), LastSeen.labels)
    /\ pc = "t_stats" =>
          /\ params = StepParams(LastSeen.params, momentum_buffer)
          /\ opt_steps = Len(seen)
    /\ pc \in {"t_next", "t_mean", "t_return"} =>
          /\ opt_steps = Len(seen)
          /\ running_corrects = SumCorrect(seen)

\* the second batch of an epoch has been stepped; the step moved the
\* parameters, and predicting again now would count differently
C9_Witness ==
    /\ pc = "t_stats"
    /\ Len(seen) = 2
    /\ opt_steps = 2
    /\ seen[1].params # seen[2].params
    /\ params # LastSeen.params
    /\ Corrects(Preds(Forward(params, training, bn_stats, x)), y) # Corrects(preds, y)

\* C10: every call of train() and of val() starts its three accumulators at
\* 0, so at any point of a call they hold the sums over the batches of that
\* call alone, and so does the pair the call returns.
C10_StatisticsResetPerCall ==
    /\ pc \in {"t_iter", "v_no_grad", "v_iter"} =>
          running_loss = Zero /\ running_corrects = 0 /\ total = 0
    /\ Accumulating =>
          /\ running_loss = SumWeightedLoss(Processed)
          /\ running_corrects = SumCorrect(Processed)
          /\ total = SumSizes(Processed)
    /\ pc \in {"append_train_loss", "append_val_loss"} =>
          /\ returns[Len(returns)].loss = FracOver(SumWeightedLoss(seen), SumSizes(seen))
          /\ returns[Len(returns)].acc = Frac(SumCorrect(seen), SumSizes(seen))

\* val() of the second epoch starts from 0 although train() of the same
\* epoch has just counted correct predictions
C10_Witness ==
    /\ pc = "v_iter"
    /\ epoch = 1
    /\ running_loss = Zero /\ running_corrects = 0 /\ total = 0
    /\ Len(returns) = 3
    /\ returns[3].op = "train"
    /\ returns[3].acc.num > 0
    /\ returns[2].acc.num > 0

\* C11: while a validation batch is processed the model is in evaluation
\* mode and gradient computation is disabled; while a training batch is
\* processed the model is in training mode (with gradients enabled), also in
\* the epochs that follow a val() call, which leaves the model in evaluation
\* mode.
C11_ModePerBatch ==
    /\ pc \in {"v_forward", "v_loss", "v_preds", "v_stats"} =>
          /\ training = FALSE /\ grad_enabled = FALSE
          /\ LastSeen.training = FALSE
    /\ pc \in {"t_zero_grad", "t_forward", "t_loss", "t_preds", "t_backward", "t_step",
               "t_stats"} =>
          /\ training = TRUE /\ grad_enabled = TRUE
          /\ LastSeen.training = TRUE
    /\ pc \in {"append_val_loss", "append_val_acc", "plot", "call_train", "t_mode"}
          /\ Len(returns) > 0 => training = FALSE

\* a training batch of the second epoch, after val() of the first epoch
\* returned with the model in evaluation mode
C11_Witness ==
    /\ pc = "t_backward"
    /\ epoch = 1
    /\ training = TRUE /\ grad_enabled = TRUE
    /\ Len(returns) = 2
    /\ returns[2].op = "val"

HistoryOfCompletedCalls ==
    /\ train_loss = [i \in 1 .. Len(ReturnsOf("train")) |-> ReturnsOf("train")[i].loss]
    /\ train_accuracy = [i \in 1 .. Len(ReturnsOf("train")) |-> ReturnsOf("train")[i].acc]
    /\ val_loss = [i \in 1 .. Len(ReturnsOf("val")) |-> ReturnsOf("val")[i].loss]
    /\ val_accuracy = [i \in 1 .. Len(ReturnsOf("val")) |-> ReturnsOf("val")[i].acc]

\* C13: a failure inside train() or val() is neither caught nor retried: as
\* soon as an exception is raised the run is in its failed state, from which
\* no step is possible (no batch is processed again, no later batch or epoch
\* runs); the failed call has not returned and the history holds exactly the
\* results of the calls that returned before.
C13_FailureTerminates ==
    /\ (fault # "none") <=> (pc = "failed")
    /\ pc = "failed" => ~ ENABLED Next
    /\ (pc = "failed" /\ fault \in {"RuntimeError", "ZeroDivisionError"}) =>
          /\ calls # << >>
          /\ calls[Len(calls)].ev = "call"
          /\ calls[Len(calls)].epoch = epoch
          /\ Len(calls) = 2 * Len(returns) + 1
          /\ HistoryOfCompletedCalls

\* val() of the second epoch fails at its second batch: three calls have
\* returned and the history holds their results
C13_Witness ==
    /\ pc = "failed"
    /\ fault = "RuntimeError"
    /\ epoch = 1
    /\ calls[Len(calls)].op = "val"
    /\ Len(seen) = 2
    /\ Len(train_loss) = 2 /\ Len(train_accuracy) = 2
    /\ Len(val_loss) = 1 /\ Len(val_accuracy) = 1

\* the loop has run all its epochs and the report is printed
C14_Completed ==
    /\ pc = "done"
    /\ epoch = epochs - 1
    /\ calls = ExpectedCalls
    /\ Len(ReturnsOf("train")) = epochs
    /\ Len(ReturnsOf("val")) = epochs
    /\ Len(stdout) = 1

\* a call that is about to return has taken every sample of its loader
C14_LoaderConsumed ==
    pc \in {"t_return", "v_return"} =>
        /\ remaining = {}
        /\ SumSizes(seen) = Len(CurrentSet)
        /\ Len(seen) * BatchSize >= Len(CurrentSet)
        /\ (Len(seen) - 1) * BatchSize < Len(CurrentSet)

\* C14 as stated: with non-empty training and validation loaders and no
\* fault of the library the loop runs to completion and the report is
\* printed, so a run that has stopped has completed.
C14_Original ==
    (train_set # << >> /\ val_set # << >> /\ ~ ENABLED Run) => C14_Completed

\* C14 (amended): with non-empty training and validation loaders, epochs >= 1
\* and no fault of the library, the loop terminates after `epochs`
\* iterations, train() and val() have each been called `epochs` times, each
\* call has consumed every batch of its loader once, and the best validation
\* accuracy is printed.
C14_RunsToCompletion ==
    /\ (train_set # << >> /\ val_set # << >> /\ epochs >= 1) => <> C14_Completed
    /\ [] C14_LoaderConsumed

\* a complete run of two epochs over loaders that end with a smaller batch
C14_Witness ==
    /\ C14_Completed
    /\ epochs = 2
    /\ Len(train_set) = 3
    /\ Len(val_set) = 3
    /\ Len(train_loss) = 2 /\ Len(val_accuracy) = 2

\* the data set of the call entered last
LastCallSet == IF calls[Len(calls)].op = "train" THEN train_set ELSE val_set

\* C15: when the loader yields no batch, total is still 0 at the final
\* division: train() / val() returns no pair, the call ends in a
\* ZeroDivisionError that reaches the loop, and nothing is appended to the
\* history for it.
C15_EmptyLoaderFails ==
    /\ (pc = "t_mean" /\ train_set = << >>) => total = 0 /\ seen = << >>
    /\ (pc = "v_mean" /\ val_set = << >>) => total = 0 /\ seen = << >>
    /\ pc = "t_return" => train_set # << >>
    /\ pc = "v_return" => val_set # << >>
    /\ \A i \in 1 .. Len(returns) :
          IF returns[i].op = "train" THEN train_set # << >> ELSE val_set # << >>
    /\ train_set = << >> =>
          train_loss = << >> /\ train_accuracy = << >> /\ val_loss = << >> /\ val_accuracy = << >>
    /\ val_set = << >> => val_loss = << >> /\ val_accuracy = << >>
    /\ fault = "ZeroDivisionError" =>
          /\ pc = "failed"
          /\ LastCallSet = << >>
          /\ total = 0
          /\ Len(calls) = 2 * Len(returns) + 1
          /\ HistoryOfCompletedCalls

\* val() fails on an empty validation set after train() of the first epoch
\* returned and was recorded
C15_Witness ==
    /\ pc = "failed"
    /\ fault = "ZeroDivisionError"
    /\ train_set # << >>
    /\ val_set = << >>
    /\ calls[Len(calls)] = [op |-> "val", ev |-> "call", epoch |-> 0]
    /\ Len(train_loss) = 1 /\ Len(train_accuracy) = 1
    /\ val_loss = << >> /\ val_accuracy = << >>

\* C16: with epochs = 0 the loop body never runs: no call of train() or
\* val(), the four sequences stay empty, and max(val_accuracy) raises
\* ValueError instead of a report being printed.
C16_ZeroEpochs ==
    /\ epochs = 0 =>
          /\ pc \in {"for", "clear", "print", "failed"}
          /\ epoch = -1
          /\ calls = << >> /\ returns = << >>
          /\ train_loss = << >> /\ train_accuracy = << >>
          /\ val_loss = << >> /\ val_accuracy = << >>
          /\ stdout = << >>
          /\ pc = "failed" => fault = "ValueError"
    /\ fault = "ValueError" => epochs = 0 /\ pc = "failed"

\* the report has failed on the empty list although both loaders have data
C16_Witness ==
    /\ epochs = 0
    /\ pc = "failed"
    /\ fault = "ValueError"
    /\ train_set # << >> /\ val_set # << >>
    /\ val_accuracy = << >>
    /\ stdout = << >>

\* C17: in every state, len(val_accuracy) <= len(val_loss) <=
\* len(train_accuracy) <= len(train_loss) <= len(val_accuracy) + 1 and
\* len(train_loss) <= epochs.
C17_HistoryLengths ==
    /\ Len(val_accuracy) <= Len(val_loss)
    /\ Len(val_loss) <= Len(train_accuracy)
    /\ Len(train_accuracy) <= Len(train_loss)
    /\ Len(train_loss) <= Len(val_accuracy) + 1
    /\ Len(train_loss) <= epochs

\* val() of the second epoch has failed: the training history is one epoch
\* ahead of the validation history
C17_Witness ==
    /\ pc = "failed"
    /\ epochs = 2
    /\ Len(train_loss) = 2 /\ Len(train_accuracy) = 2
    /\ Len(val_loss) = 1 /\ Len(val_accuracy) = 1

====
